---- MODULE Spec2Model ----
(***************************************************************************)
(* The control loop of src/main.ts: the GUI-driven controls record, the    *)
(* module-level shapes, and the per-frame tick handler.                    *)
(*                                                                         *)
(* JavaScript runs one handler at a time, so every handler (tick, a GUI    *)
(* widget's setter, Load Scene, resize) is one atomic action.  The calls a *)
(* handler makes on its collaborators (stats, renderer, shapes) are kept,  *)
(* in order, in `calls`.                                                   *)
(***************************************************************************)
EXTENDS Integers, Sequences, FiniteSets, TLC

VARIABLES
  controls,          \* main.ts:15-23, the record dat.GUI reads and writes
  icosphere,         \* main.ts:25, the object the variable refers to
  square,            \* main.ts:26
  cube,              \* main.ts:27
  prevTesselations,  \* main.ts:28
  time,              \* main.ts:29
  camera,            \* main.ts:72, aspect ratio and the ratio its projection uses
  pending,           \* animation-frame callbacks requested and not yet run
  dropped,           \* resource sets held by shape objects no variable refers to
  handler,           \* the handler that ran last
  calls,             \* the calls that handler made, in order
  seen               \* controls.tesselations and controls.shape as the last tick read them

vars == <<controls, icosphere, square, cube, prevTesselations, time, camera,
          pending, dropped, handler, calls, seen>>

----------------------------------------------------------------------------
(* Bounds of the exploration *)

\* ticks explored
MaxTime == 3
\* Load Scene is explored while fewer resource sets than this are outstanding
MaxOutstanding == 5
\* window.innerWidth explored: 1..MaxWidth, in units of window.innerHeight
MaxWidth == 2

\* slider positions explored, of the 0..8 the slider offers (main.ts:51)
TessSamples == {3, 5}
\* colour slider positions explored, of 0..255 (main.ts:54-56)
ColorSamples == {25, 200}

----------------------------------------------------------------------------
(* The option lists of the two selectors *)

ShapeOptions == {"icosphere", "cube"}
ShaderOptions == {"lambert", "fixed gradient", "noise"}
\* a value of the string-typed field that is in neither list
Unlisted == "unlisted"

Undefined == "undefined"
NoneSeen == [tesselations |-> -1, shape |-> ""]

----------------------------------------------------------------------------
(* Shape objects: a Drawable holds a number of GPU resource sets *)

\* new Icosphere(center, 1, level): nothing on the GPU yet
NewIcosphere(level) == [level |-> level, held |-> 0]
\* new Square(center), new Cube(center)
NewShape == [held |-> 0]

\* shape.create(): one resource set acquired
create(shape) == [shape EXCEPT !.held = @ + 1]
\* shape.destroy(): one resource set released, when the shape holds any
destroy(shape) == [shape EXCEPT !.held = IF @ > 0 THEN @ - 1 ELSE 0]

Holds(shape) == shape.held > 0

\* resource sets acquired and not released, over all shape objects ever built
Outstanding == icosphere.held + square.held + cube.held + dropped

----------------------------------------------------------------------------
(* The record of a call *)

Call(op, who) ==
  [op |-> op, who |-> who, level |-> -1, shader |-> "", color |-> <<>>,
   frame |-> -1, proj |-> <<>>]

CallNew(who, level) == [Call("new", who) EXCEPT !.level = level]

CallRender(who, shader, color, frame, proj) ==
  [Call("render", who) EXCEPT !.shader = shader, !.color = color,
                              !.frame = frame, !.proj = proj]

Throw == Call("throw", "TypeError")

----------------------------------------------------------------------------
(* The camera of a resize: Camera.setAspectRatio, Camera.updateProjectionMatrix *)

RECURSIVE Gcd(_, _)
Gcd(a, b) == IF b = 0 THEN a ELSE Gcd(b, a % b)

\* window.innerWidth / window.innerHeight, as a fraction in lowest terms
Ratio(w, h) == <<w \div Gcd(w, h), h \div Gcd(w, h)>>

setAspectRatio(cam, ratio) == [cam EXCEPT !.aspect = ratio]
updateProjectionMatrix(cam) == [cam EXCEPT !.proj = cam.aspect]

\* new Camera(eye, target), before main sets its aspect ratio
NewCamera == [aspect |-> <<1, 1>>, proj |-> <<1, 1>>]

\* the resize statements without the projection refresh
ResizedStale(cam, w, h) == setAspectRatio(cam, Ratio(w, h))

\* the camera after the three statements main runs at start-up and on resize
Resized(cam, w, h) == updateProjectionMatrix(setAspectRatio(cam, Ratio(w, h)))

ResizeCalls ==
  << Call("setSize", "renderer"), Call("setAspectRatio", "camera"),
     Call("updateProjectionMatrix", "camera") >>

----------------------------------------------------------------------------
(* loadScene *)

\* the three shapes loadScene builds, each created once
LoadedScene(tesselations) ==
  [icosphere |-> create(NewIcosphere(tesselations)),
   square    |-> create(NewShape),
   cube      |-> create(NewShape)]

LoadSceneCalls(tesselations) ==
  << CallNew("icosphere", tesselations), Call("create", "icosphere"),
     CallNew("square", -1), Call("create", "square"),
     CallNew("cube", -1), Call("create", "cube") >>

----------------------------------------------------------------------------
(* The state main leaves when it is about to call tick() for the first time *)

InitialControls ==
  [tesselations |-> 5, shape |-> "icosphere", shaderName |-> "lambert",
   lambertR |-> 200, lambertG |-> 25, lambertB |-> 25]

Init ==
  /\ controls = InitialControls
  /\ icosphere = LoadedScene(InitialControls.tesselations).icosphere
  /\ square = LoadedScene(InitialControls.tesselations).square
  /\ cube = LoadedScene(InitialControls.tesselations).cube
  /\ prevTesselations = 5
  /\ time = 0
  /\ \E w \in 1..MaxWidth :
       camera = Resized(NewCamera, w, 1)
  /\ pending = 0
  /\ dropped = 0
  /\ handler = "main"
  /\ calls = LoadSceneCalls(InitialControls.tesselations) \o ResizeCalls
  /\ seen = NoneSeen

----------------------------------------------------------------------------
(* tick *)

\* lines 99-104: the icosphere is rebuilt when the slider left the rendered level
Regenerates(tesselations, prev) == tesselations # prev

\* line 101 left out: the level of start-up stays the remembered one
StaleLevel(tesselations) == 5

\* lines 101-103: the value prevTesselations takes and the icosphere built from it
RegeneratedLevel(tesselations) == tesselations

\* the cube case drawing the icosphere of the case above it
SelectDrawableFallThrough(shape) ==
  CASE shape = "icosphere" -> [destroys |-> "cube", toDraw |-> "icosphere"]
    [] shape = "cube"      -> [destroys |-> "icosphere", toDraw |-> "icosphere"]
    [] OTHER               -> [destroys |-> Undefined, toDraw |-> Undefined]

\* lines 109-118: the shape destroyed and the shape drawn, by controls.shape
SelectDrawable(shape) ==
  CASE shape = "icosphere" -> [destroys |-> "cube", toDraw |-> "icosphere"]
    [] shape = "cube"      -> [destroys |-> "icosphere", toDraw |-> "cube"]
    [] OTHER               -> [destroys |-> Undefined, toDraw |-> Undefined]

\* the 'noise' case left out of the switch
SelectShaderWithoutNoise(shaderName) ==
  CASE shaderName = "lambert"        -> "lambert"
    [] shaderName = "fixed gradient" -> "gradient"
    [] OTHER                         -> Undefined

\* lines 120-130: the shader program, by controls.shaderName
SelectShader(shaderName) ==
  CASE shaderName = "lambert"        -> "lambert"
    [] shaderName = "fixed gradient" -> "gradient"
    [] shaderName = "noise"          -> "noise"
    [] OTHER                         -> Undefined

\* line 132: a method call on an undefined toDraw throws
CreateThrows(toDraw) == toDraw = Undefined

\* renderer.render binds uniforms on the shader it is given before it draws
RenderThrows(shader) == shader = Undefined

\* line 137: the colour handed to render, in 255ths
RenderColor(c) == <<c.lambertR, c.lambertG, c.lambertB>>

\* line 141 left out: the counter stays where it is
FrameKept(t) == t

\* line 141: time++
NextFrame(t) == t + 1

\* line 144 left out: no further frame is asked for
NotRequested(n) == n

\* line 144: the callbacks pending once tick has asked for the next frame
Requested(n) == n + 1

\* tick writing the level it rendered back into the slider's field
ControlsWrittenBack(c) == [c EXCEPT !.tesselations = 5]

\* lines 94-145: tick assigns no field of controls
ControlsAfterTick(c) == c

Tick ==
  /\ handler = "main" \/ pending > 0
  /\ time < MaxTime
  /\ LET regen  == Regenerates(controls.tesselations, prevTesselations)
         prev1  == IF regen THEN RegeneratedLevel(controls.tesselations)
                   ELSE prevTesselations
         ico1   == IF regen THEN create(NewIcosphere(prev1)) ELSE icosphere
         drop1  == IF regen THEN dropped + icosphere.held ELSE dropped
         sel    == SelectDrawable(controls.shape)
         ico2   == IF sel.destroys = "icosphere" THEN destroy(ico1) ELSE ico1
         cube2  == IF sel.destroys = "cube" THEN destroy(cube) ELSE cube
         shader == SelectShader(controls.shaderName)
         thrown1 == CreateThrows(sel.toDraw)
         ico3   == IF sel.toDraw = "icosphere" THEN create(ico2) ELSE ico2
         cube3  == IF sel.toDraw = "cube" THEN create(cube2) ELSE cube2
         thrown2 == ~thrown1 /\ RenderThrows(shader)
         thrown == thrown1 \/ thrown2
         taken  == IF handler = "main" THEN pending ELSE pending - 1
         head   == << Call("update", "camera"), Call("begin", "stats"),
                      Call("viewport", "gl"), Call("clear", "renderer") >>
         regenCalls == IF regen
                       THEN << CallNew("icosphere", prev1), Call("create", "icosphere") >>
                       ELSE << >>
         selCalls == IF sel.destroys = Undefined THEN << >>
                     ELSE << Call("destroy", sel.destroys) >>
         drawCalls == IF thrown1 THEN << Throw >>
                      ELSE << Call("create", sel.toDraw),
                              CallRender(sel.toDraw, shader, RenderColor(controls),
                                         time, camera.proj) >>
                           \o (IF thrown2 THEN << Throw >>
                               ELSE << Call("end", "stats"),
                                       Call("requestAnimationFrame", "tick") >>)
     IN /\ prevTesselations' = prev1
        /\ icosphere' = ico3
        /\ cube' = cube3
        /\ dropped' = drop1
        /\ time' = IF thrown THEN time ELSE NextFrame(time)
        /\ pending' = IF thrown THEN taken ELSE Requested(taken)
        /\ calls' = head \o regenCalls \o selCalls \o drawCalls
        /\ seen' = [tesselations |-> controls.tesselations, shape |-> controls.shape]
  /\ handler' = "tick"
  /\ controls' = ControlsAfterTick(controls)
  /\ UNCHANGED <<square, camera>>

----------------------------------------------------------------------------
(* The GUI: dat.GUI writes one field of controls, or calls Load Scene *)

GuiReady == handler # "main"

Quiet ==
  /\ handler' = "gui"
  /\ calls' = << >>
  /\ UNCHANGED <<icosphere, square, cube, prevTesselations, time, camera,
                 pending, dropped, seen>>

SetTesselations ==
  /\ GuiReady
  /\ \E v \in TessSamples \ {controls.tesselations} :
       controls' = [controls EXCEPT !.tesselations = v]
  /\ Quiet

SetShape ==
  /\ GuiReady
  /\ \E v \in ShapeOptions \ {controls.shape} :
       controls' = [controls EXCEPT !.shape = v]
  /\ Quiet

SetShaderName ==
  /\ GuiReady
  /\ \E v \in ShaderOptions \ {controls.shaderName} :
       controls' = [controls EXCEPT !.shaderName = v]
  /\ Quiet

SetColor ==
  /\ GuiReady
  /\ \E f \in {"lambertR", "lambertG", "lambertB"} :
       \E v \in ColorSamples \ {controls[f]} :
         controls' = [controls EXCEPT ![f] = v]
  /\ Quiet

\* the 'Load Scene' button: loadScene() with the shapes of before dropped
LoadScene ==
  /\ GuiReady
  /\ Outstanding < MaxOutstanding
  /\ icosphere' = LoadedScene(controls.tesselations).icosphere
  /\ square' = LoadedScene(controls.tesselations).square
  /\ cube' = LoadedScene(controls.tesselations).cube
  /\ dropped' = dropped + icosphere.held + square.held + cube.held
  /\ handler' = "Load Scene"
  /\ calls' = LoadSceneCalls(controls.tesselations)
  /\ UNCHANGED <<controls, prevTesselations, time, camera, pending, seen>>

\* the window takes a width of w heights and the resize listener runs (lines 147-151)
Resize ==
  /\ GuiReady
  /\ \E w \in 1..MaxWidth :
       camera' = Resized(camera, w, 1)
  /\ handler' = "resize"
  /\ calls' = ResizeCalls
  /\ UNCHANGED <<controls, icosphere, square, cube, prevTesselations, time,
                 pending, dropped, seen>>

\* a selector field written with a string its option list does not hold
WriteUnlisted ==
  /\ GuiReady
  /\ \E f \in {"shape", "shaderName"} :
       /\ controls[f] # Unlisted
       /\ controls' = [controls EXCEPT ![f] = Unlisted]
  /\ Quiet

----------------------------------------------------------------------------

Next ==
  \/ Tick
  \/ SetTesselations
  \/ SetShape
  \/ SetShaderName
  \/ SetColor
  \/ LoadScene
  \/ Resize

Spec == Init /\ [][Next]_vars

\* the browser runs a requested animation-frame callback, and main calls tick()
FairSpec == Spec /\ WF_vars(Tick)

\* ticks and selector switches alone: no Load Scene, no slider change
NextSwitch ==
  \/ Tick
  \/ SetShape
  \/ SetShaderName
  \/ SetColor
  \/ Resize

SwitchSpec == Init /\ [][NextSwitch]_vars

\* the selector fields may also be written with a string outside their lists
NextRaw ==
  \/ Next
  \/ WriteUnlisted

RawSpec == Init /\ [][NextRaw]_vars

----------------------------------------------------------------------------
(* Reading a handler's calls *)

\* the positions of the calls of `op` on `who` in a log
At(log, op, who) == {i \in DOMAIN log : log[i].op = op /\ log[i].who = who}

\* the positions of the calls of `op`, on anything
AtOp(log, op) == {i \in DOMAIN log : log[i].op = op}

\* the shader program a value of controls.shaderName names
ProgramNamed(shaderName) ==
  CASE shaderName = "lambert"        -> "lambert"
    [] shaderName = "fixed gradient" -> "gradient"
    [] shaderName = "noise"          -> "noise"
    [] OTHER                         -> "none"

TickRan == handler' = "tick"

----------------------------------------------------------------------------
(* C1: when the slider value a tick reads differs from the value the tick  *)
(* before it read, the tick builds exactly one icosphere, at the new       *)
(* level; when the two values are equal the tick builds none.              *)
C1_RegeneratesOncePerChange ==
  [][ (TickRan /\ seen # NoneSeen) =>
        LET built == At(calls', "new", "icosphere") IN
        IF controls.tesselations # seen.tesselations
        THEN /\ Cardinality(built) = 1
             /\ \A i \in built : calls'[i].level = controls.tesselations
             /\ icosphere'.level = controls.tesselations
        ELSE built = {} ]_vars

\* a tick that rebuilt the icosphere at the level the slider moved to
C1_Witness ==
  /\ handler = "tick"
  /\ time >= 2
  /\ controls.tesselations = 3
  /\ At(calls, "new", "icosphere") # {}
  /\ icosphere.level = 3

(* C2: with ticks and selector switches alone, the number of outstanding   *)
(* resource sets stays the number loadScene acquired at start-up.          *)
C2_NoLeakAcrossSwitches == Outstanding = 3

C4_OldIcosphereReleased ==
  [][ (TickRan /\ controls.tesselations # prevTesselations) =>
        /\ \E i \in At(calls', "destroy", "icosphere") :
             \A j \in At(calls', "new", "icosphere") : i < j
        /\ dropped' = dropped ]_vars

(* C5: every tick leaves exactly one animation-frame callback pending, and *)
(* the loop never stops: every frame the exploration allows does run.      *)
C5_LoopNeverEnds ==
  /\ [][TickRan => pending' = 1]_vars
  /\ <>(time = MaxTime)

\* a tick has run and has asked for the next one
C5_Witness ==
  /\ handler = "tick"
  /\ time = 2
  /\ pending = 1
  /\ At(calls, "requestAnimationFrame", "tick") # {}

(* C6: at every render call the drawn shape is the only one of icosphere,  *)
(* square and cube that holds GPU resources.                               *)
C6_ExclusiveOwnership ==
  (handler = "tick" /\ AtOp(calls, "render") # {}) =>
    /\ Holds(icosphere) <=> controls.shape = "icosphere"
    /\ Holds(cube) <=> controls.shape = "cube"
    /\ ~Holds(square)

(* C7: a tick that reads the same shape and the same tessellation level as *)
(* the tick before it calls create() on nothing.                           *)
C7_CreateOnlyOnChange ==
  [][ (TickRan /\ seen # NoneSeen
       /\ seen.shape = controls.shape
       /\ seen.tesselations = controls.tesselations) =>
        AtOp(calls', "create") = {} ]_vars

(* C8: every tick issues one render, of the shape controls.shape names     *)
(* with the program controls.shaderName names; and in the first tick after *)
(* the shape selector changed, destroy() on the shape of before comes      *)
(* first, create() on the selected shape second, the render third.         *)
C8_SwitchOrder ==
  [][ TickRan =>
        LET log == calls'
            draws == AtOp(log, "render")
        IN /\ Cardinality(draws) = 1
           /\ \A k \in draws :
                /\ log[k].who = controls.shape
                /\ log[k].shader = ProgramNamed(controls.shaderName)
           /\ (seen # NoneSeen /\ seen.shape # controls.shape) =>
                \E i \in At(log, "destroy", seen.shape) :
                  \E j \in At(log, "create", controls.shape) :
                    /\ i < j
                    /\ \A k \in draws : j < k ]_vars

\* the second tick, drawing the cube: the first tick drew the icosphere
C8_Witness ==
  /\ handler = "tick"
  /\ time = 2
  /\ controls.shape = "cube"
  /\ controls.shaderName = "noise"
  /\ At(calls, "destroy", "icosphere") # {}
  /\ At(calls, "render", "cube") # {}

(* C9: every render uses a projection computed from the camera's current   *)
(* aspect ratio.                                                           *)
C9_ProjectionFresh ==
  \A i \in AtOp(calls, "render") : calls[i].proj = camera.aspect

\* a render after the aspect ratio left the camera's initial one
C9_Witness ==
  /\ handler = "tick"
  /\ camera.aspect # NewCamera.aspect
  /\ \E i \in AtOp(calls, "render") : calls[i].proj = camera.aspect

(* C10: a tick leaves every field of controls as it was, leaves square     *)
(* alone and binds no new object to square or cube.                        *)
C10_TickReadsControls ==
  [][ TickRan =>
        /\ controls' = controls
        /\ square' = square
        /\ At(calls', "new", "square") = {}
        /\ At(calls', "new", "cube") = {} ]_vars

\* a tick that ran on controls the GUI had changed in every field
C10_Witness ==
  /\ handler = "tick"
  /\ time >= 2
  /\ controls.tesselations # InitialControls.tesselations
  /\ controls.shape # InitialControls.shape
  /\ controls.shaderName # InitialControls.shaderName
  /\ controls.lambertR # InitialControls.lambertR
  /\ controls.lambertG # InitialControls.lambertG
  /\ controls.lambertB # InitialControls.lambertB

(* C11: every tick calls stats.begin, renderer.clear, renderer.render and  *)
(* stats.end once each and in that order, and the render carries one       *)
(* drawable.                                                               *)
C11_FrameSequence ==
  handler = "tick" =>
    \E b \in At(calls, "begin", "stats") :
      \E c \in At(calls, "clear", "renderer") :
        \E r \in AtOp(calls, "render") :
          \E e \in At(calls, "end", "stats") :
            /\ b < c /\ c < r /\ r < e
            /\ At(calls, "begin", "stats") = {b}
            /\ At(calls, "clear", "renderer") = {c}
            /\ AtOp(calls, "render") = {r}
            /\ At(calls, "end", "stats") = {e}
            /\ calls[r].who \in ShapeOptions

\* a tick drawing the cube with the noise program; an earlier one drew the icosphere
C11_Witness ==
  /\ handler = "tick"
  /\ time = 3
  /\ At(calls, "render", "cube") # {}
  /\ \E r \in AtOp(calls, "render") : calls[r].shader = "noise"
  /\ At(calls, "end", "stats") # {}

(* C12: whenever a tick renders the icosphere, the icosphere was built at  *)
(* the level controls.tesselations has in that tick.                       *)
C12_RenderedLevelIsSlider ==
  (handler = "tick" /\ At(calls, "render", "icosphere") # {}) =>
    icosphere.level = controls.tesselations

(* C13: a tick that runs right after Load Scene, the slider untouched in   *)
(* between, builds no icosphere: Load Scene built it at the slider's level *)
(* and prevTesselations is that level when the tick starts.                *)
C13_NoRebuildAfterLoadScene ==
  [][ (handler = "Load Scene" /\ TickRan) =>
        /\ prevTesselations = icosphere.level
        /\ At(calls', "new", "icosphere") = {} ]_vars

(* C14: Load Scene calls destroy() on the icosphere, the square and the    *)
(* cube it replaces, and leaves no replaced shape holding GPU resources.   *)
C14_LoadSceneReleases ==
  [][ handler' = "Load Scene" =>
        /\ \A who \in {"icosphere", "square", "cube"} :
             \E i \in At(calls', "destroy", who) :
               \A j \in At(calls', "new", who) : i < j
        /\ dropped' = dropped ]_vars

(* C15: a tick calls destroy() only on a shape that holds GPU resources at *)
(* that point of the tick.                                                 *)
C15_DestroyOnlyHeld ==
  [][ TickRan =>
        /\ At(calls', "destroy", "cube") # {} => Holds(cube)
        /\ At(calls', "destroy", "icosphere") # {} =>
             (Holds(icosphere) \/ At(calls', "create", "icosphere") # {}) ]_vars

(* C16: the first tick hands render the frame counter 0, every tick hands  *)
(* render the counter and then adds one to it, and no other handler        *)
(* changes it.                                                             *)
C16_FrameCounter ==
  /\ [](handler = "main" => time = 0)
  /\ [][ IF TickRan
         THEN /\ \A r \in AtOp(calls', "render") : calls'[r].frame = time
              /\ AtOp(calls', "render") # {}
              /\ time' = time + 1
         ELSE time' = time ]_vars

\* the third render, handed 2, after the GUI changed the controls and Load Scene ran
C16_Witness ==
  /\ handler = "tick"
  /\ time = 3
  /\ \E r \in AtOp(calls, "render") : calls[r].frame = 2
  /\ controls.shape = "cube"
  /\ controls.tesselations = 3
  /\ dropped > 0

====
